---- MODULE Spec2Model ----
(***************************************************************************)
(* Model of occi_os_api/backends/storage.py: the StorageBackend and        *)
(* StorageLinkBackend handlers.  Each handler is a function from the       *)
(* entity it is given, its inputs and the platform's replies to the entity *)
(* it leaves behind, the platform calls it made and the way it ended.      *)
(***************************************************************************)
EXTENDS Integers, Sequences, FiniteSets, TLC

VARIABLES entity,     \* the storage resource handed to StorageBackend
          link,       \* the storage link handed to StorageLinkBackend
          source,     \* link.source.attributes (the compute resource)
          registry,   \* paths known to extras['registry']
          lastOp,     \* the handler that ran last
          input,      \* its input: new.attributes of update, the action of action
          calls,      \* the platform calls that handler made, in order
          volume,     \* the volume record get_storage returned to it
          device,     \* the device name attach_volume returned to it
          outcome     \* "ok", or the exception the handler raised

vars == <<entity, link, source, registry, lastOp, input, calls, volume, device, outcome>>

linkVars == <<link, source, registry>>

(***************************************************************************)
(* Bounds of the model.                                                    *)
(***************************************************************************)
MaxSize == 2          \* the platform reports volume sizes 1..MaxSize

(***************************************************************************)
(* Values.                                                                 *)
(***************************************************************************)
ATTR_TITLE == "occi.core.title"
ATTR_SUMMARY == "occi.core.summary"
ATTR_ID == "occi.core.id"
ATTR_SIZE == "occi.storage.size"
ATTR_STATE == "occi.storage.state"
ATTR_DEVICEID == "occi.storagelink.deviceid"
ATTR_LINKSTATE == "occi.storagelink.state"

ONLINE == "online"
OFFLINE == "offline"
BACKUP == "backup"
SNAPSHOT == "snapshot"
RESIZE == "resize"

STORAGE_LOCATION == "/storage/"
STORAGELINK_LOCATION == "/storage/link/"

\* OS volume states (the comment of retrieve)
Statuses == {"available", "creating", "deleting", "in-use", "error", "error_deleting"}

None == "<None>"

VolIds == {"v1", "v2"}
InstIds == {"i1", "i2"}
Uuids == {"uuid-1"}
Titles == {"", "A"}
DisplayNames == {"A", "vol"}
Dates == {"2012-06-01"}
DeviceNames == {"/dev/vdb", "/dev/vdc"}
\* actions a client may request; "start" is an action of another kind
RequestedActions == {ONLINE, OFFLINE, BACKUP, SNAPSHOT, RESIZE, "start"}

NoVolume == [id |-> "", display_name |-> "", size |-> 0, status |-> "none"]
NoInput == <<>>

(***************************************************************************)
(* Python dictionaries and lists.                                          *)
(***************************************************************************)
Has(attrs, k) == k \in DOMAIN attrs

Put(attrs, k, v) == [x \in (DOMAIN attrs) \cup {k} |-> IF x = k THEN v ELSE attrs[x]]

Get(attrs, k, default) == IF Has(attrs, k) THEN attrs[k] ELSE default

Range(s) == {s[i] : i \in DOMAIN s}

\* str(float(n)) of a whole number
FloatStr(n) == ToString(n) \o ".0"

\* sep.join([a, b])
Join(sep, a, b) == a \o sep \o b

\* one platform call, as the glue layer receives it
Call(api, args) == [api |-> api, args |-> args]

\* what a handler leaves behind
Done(e, cs, vol, how) == [entity |-> e, calls |-> cs, volume |-> vol, outcome |-> how]

(***************************************************************************)
(* StorageBackend.create                                                   *)
(***************************************************************************)
\* a create that does not validate the size
SizePresentUnchecked(attrs) == TRUE

SizePresent(attrs) == Has(attrs, ATTR_SIZE)

\* a create that also replaces an empty title by a uuid
CreateNameNonEmpty(attrs, uuid) ==
    IF Has(attrs, ATTR_TITLE) /\ Len(attrs[ATTR_TITLE]) > 0 THEN attrs[ATTR_TITLE] ELSE uuid

CreateName(attrs, uuid) == IF ~Has(attrs, ATTR_TITLE) THEN uuid ELSE attrs[ATTR_TITLE]

CreateActions == <<OFFLINE, BACKUP, SNAPSHOT, RESIZE>>

\* a create that writes occi.core.id before it checks the status
CreateOnErrorIdWritten(e, vol_id) == [e EXCEPT !.attributes = Put(e.attributes, ATTR_ID, vol_id)]

\* the entity as create leaves it when the re-fetched volume is in error
CreateOnError(e, vol_id) == e

\* the entity as create leaves it when the volume was created
CreateOnSuccess(e, vol_id, status) ==
    LET a1 == Put(e.attributes, ATTR_ID, vol_id)
        a2 == IF status = "available" THEN Put(a1, ATTR_STATE, "active") ELSE a1
    IN [attributes |-> a2,
        identifier |-> STORAGE_LOCATION \o vol_id,
        actions |-> CreateActions]

\* createRaises, getRaises: the platform call fails; vol: the record get_storage returns
CreateOp(e, uuid, createRaises, getRaises, vol) ==
    IF ~SizePresent(e.attributes)
    THEN Done(e, <<>>, NoVolume, "AttributeError")
    ELSE IF ~Has(e.attributes, ATTR_SIZE)
    THEN Done(e, <<>>, NoVolume, "KeyError")
    ELSE
      LET size == e.attributes[ATTR_SIZE]
          name == CreateName(e.attributes, uuid)
          c1 == <<Call("create_storage", <<size, name>>)>>
          c2 == Append(c1, Call("get_storage", <<vol.id>>))
      IN IF createRaises THEN Done(e, c1, NoVolume, "PlatformError")
         ELSE IF getRaises THEN Done(e, c2, NoVolume, "PlatformError")
         ELSE IF vol.status = "error"
              THEN Done(CreateOnError(e, vol.id), c2, vol, "HTTPError500")
         ELSE Done(CreateOnSuccess(e, vol.id, vol.status), c2, vol, "ok")

(***************************************************************************)
(* StorageBackend.retrieve                                                 *)
(***************************************************************************)
\* a retrieve that forgets the status "in-use"
IsOnlineAvailableOnly(status) == status = "available"

IsOnline(status) == status = "available" \/ status = "in-use"

RetrieveState(status) == IF IsOnline(status) THEN "online" ELSE "offline"

RetrieveActions(status) ==
    IF IsOnline(status) THEN <<OFFLINE, BACKUP, SNAPSHOT, RESIZE>> ELSE <<ONLINE>>

RetrieveOp(e, getRaises, vol) ==
    IF ~Has(e.attributes, ATTR_ID) THEN Done(e, <<>>, NoVolume, "KeyError")
    ELSE
      LET v_id == e.attributes[ATTR_ID]
          c1 == <<Call("get_storage", <<v_id>>)>>
          a1 == Put(e.attributes, ATTR_TITLE, vol.display_name)
          a2 == Put(a1, ATTR_SIZE, FloatStr(vol.size))
          a3 == Put(a2, ATTR_STATE, RetrieveState(vol.status))
      IN IF getRaises THEN Done(e, c1, NoVolume, "PlatformError")
         ELSE Done([e EXCEPT !.attributes = a3, !.actions = RetrieveActions(vol.status)],
                   c1, vol, "ok")

(***************************************************************************)
(* StorageBackend.update                                                   *)
(***************************************************************************)
\* an update that copies every attribute of new
UpdateOpCopyAll(old, new) ==
    Done([old EXCEPT !.attributes = new @@ old.attributes], <<>>, NoVolume, "ok")

\* the guard of the second assignment reads new.attributes['occi.core.summary']
SummaryGuard(new) == Has(new, ATTR_TITLE)

UpdateOp(old, new) ==
    IF Cardinality(DOMAIN new) > 0
    THEN
      LET a1 == IF Has(new, ATTR_TITLE) /\ Len(new[ATTR_TITLE]) > 0
                THEN Put(old.attributes, ATTR_TITLE, new[ATTR_TITLE])
                ELSE old.attributes
          o1 == [old EXCEPT !.attributes = a1]
      IN IF SummaryGuard(new)
         THEN IF ~Has(new, ATTR_SUMMARY)
              THEN Done(o1, <<>>, NoVolume, "KeyError")
              ELSE IF Len(new[ATTR_SUMMARY]) > 0
                   THEN Done([o1 EXCEPT !.attributes = Put(a1, ATTR_SUMMARY, new[ATTR_SUMMARY])],
                             <<>>, NoVolume, "ok")
                   ELSE Done(o1, <<>>, NoVolume, "ok")
         ELSE Done(o1, <<>>, NoVolume, "ok")
    ELSE Done(old, <<>>, NoVolume, "ok")

(***************************************************************************)
(* StorageBackend.delete                                                   *)
(***************************************************************************)
DeleteOp(e, deleteRaises) ==
    IF ~Has(e.attributes, ATTR_ID) THEN Done(e, <<>>, NoVolume, "KeyError")
    ELSE Done(e, <<Call("delete_storage_instance", <<e.attributes[ATTR_ID]>>)>>, NoVolume,
              IF deleteRaises THEN "PlatformError" ELSE "ok")

(***************************************************************************)
(* StorageBackend.action                                                   *)
(***************************************************************************)
\* an action that does not consult the allowed actions
ActionAllowedAlways(action, actions) == TRUE

ActionAllowed(action, actions) == action \in Range(actions)

ActionOp(e, action, today, snapshotRaises) ==
    IF ~ActionAllowed(action, e.actions)
    THEN Done(e, <<>>, NoVolume, "AttributeError")
    ELSE IF action \in {ONLINE, OFFLINE, BACKUP, RESIZE}
    THEN Done(e, <<>>, NoVolume, "ok")
    ELSE IF action = SNAPSHOT
    THEN IF ~Has(e.attributes, ATTR_ID) THEN Done(e, <<>>, NoVolume, "KeyError")
         ELSE LET volume_id == e.attributes[ATTR_ID]
                  name == volume_id \o today
                  description == IF Has(e.attributes, ATTR_SUMMARY)
                                 THEN e.attributes[ATTR_SUMMARY] ELSE "N/A"
              IN Done(e, <<Call("snapshot_storage_instance",
                                <<volume_id, name, description>>)>>, NoVolume,
                      IF snapshotRaises THEN "PlatformError" ELSE "ok")
    ELSE Done(e, <<>>, NoVolume, "ok")

(***************************************************************************)
(* The entities a client hands to the handlers.                            *)
(***************************************************************************)
\* all dictionaries with keys among those of choices, each key with one of its values
Dicts(choices) ==
    UNION {[ks -> UNION {choices[k] : k \in ks}] : ks \in SUBSET DOMAIN choices}

WellTyped(d, choices) == \A k \in DOMAIN d : d[k] \in choices[k]

ClientAttrs ==
    LET choices == (ATTR_TITLE :> Titles) @@ (ATTR_SUMMARY :> {"S"}) @@ (ATTR_SIZE :> {"1"})
                   @@ (ATTR_STATE :> {"offline"})
    IN {d \in Dicts(choices) : WellTyped(d, choices)}

NewAttrs ==
    LET choices == (ATTR_TITLE :> {"", "B"}) @@ (ATTR_SUMMARY :> {"", "T"}) @@ (ATTR_ID :> {"v9"})
    IN {d \in Dicts(choices) : WellTyped(d, choices)}

VolumeRecords ==
    [id : VolIds, display_name : DisplayNames, size : 1..MaxSize, status : Statuses]

(***************************************************************************)
(* The state machine of the storage resource.                              *)
(***************************************************************************)
Finish(op, arg, r) ==
    /\ entity' = r.entity
    /\ calls' = r.calls
    /\ volume' = r.volume
    /\ outcome' = r.outcome
    /\ lastOp' = op
    /\ input' = arg
    /\ device' = None
    /\ UNCHANGED linkVars

Create ==
    \E uuid \in Uuids, createRaises \in BOOLEAN, getRaises \in BOOLEAN, vol \in VolumeRecords :
       Finish("create", NoInput, CreateOp(entity, uuid, createRaises, getRaises, vol))

Retrieve ==
    \E getRaises \in BOOLEAN, vol \in VolumeRecords :
       Finish("retrieve", NoInput, RetrieveOp(entity, getRaises, vol))

Update ==
    \E new \in NewAttrs : Finish("update", new, UpdateOp(entity, new))

Delete ==
    \E deleteRaises \in BOOLEAN : Finish("delete", NoInput, DeleteOp(entity, deleteRaises))

Action ==
    \E action \in RequestedActions, today \in Dates, snapshotRaises \in BOOLEAN :
       Finish("action", action, ActionOp(entity, action, today, snapshotRaises))

Init ==
    /\ entity \in [attributes : ClientAttrs, identifier : {""}, actions : {<<>>}]
    /\ link = [attributes |-> <<>>, identifier |-> ""]
    /\ source = <<>>
    /\ registry = {}
    /\ lastOp = "none"
    /\ input = NoInput
    /\ calls = <<>>
    /\ volume = NoVolume
    /\ device = None
    /\ outcome = "ok"

Next == Create \/ Retrieve \/ Update \/ Delete \/ Action

Spec == Init /\ [][Next]_vars

(***************************************************************************)
(* StorageLinkBackend.create                                               *)
(***************************************************************************)
\* what a link handler leaves behind
LinkDone(l, cs, vol, dev, how) ==
    [link |-> l, calls |-> cs, volume |-> vol, device |-> dev, outcome |-> how]

ComputePath(instance_id) == "/compute/" \o instance_id

\* a create that does not handle the registry's KeyError path
RegistryHasAlways(reg, path) == TRUE

\* registry.get_resource(path, extras) returns; it raises KeyError otherwise
RegistryHas(reg, path) == path \in reg

\* a create that keeps the requested device id when there is one
AttachedDeviceRequested(device_id, device_name) ==
    IF device_id # None THEN device_id ELSE device_name

\* the value create stores in occi.storagelink.deviceid after the attach
AttachedDevice(device_id, device_name) == device_name

\* src, tgt: link.source.attributes and link.target.attributes
LinkCreateOp(l, src, tgt, reg, attachRaises, device_name) ==
    LET volume_id == Get(tgt, ATTR_ID, "")
        instance_id == Get(src, ATTR_ID, "")
        link_id == Join("_", instance_id, volume_id)
        a1 == Put(l.attributes, ATTR_ID, link_id)
        a2 == Put(a1, ATTR_LINKSTATE, "active")
        l1 == [attributes |-> a2, identifier |-> STORAGELINK_LOCATION \o link_id]
    IN IF ~RegistryHas(reg, ComputePath(instance_id))
       THEN LinkDone(l1, <<>>, NoVolume, None, "ok")
       ELSE
         LET device_id == Get(l1.attributes, ATTR_DEVICEID, None)
             c1 == <<Call("attach_volume", <<instance_id, volume_id, device_id>>)>>
         IN IF attachRaises THEN LinkDone(l1, c1, NoVolume, None, "PlatformError")
            ELSE LinkDone([l1 EXCEPT !.attributes =
                              Put(a2, ATTR_DEVICEID, AttachedDevice(device_id, device_name))],
                          c1, NoVolume, device_name, "ok")

(***************************************************************************)
(* StorageLinkBackend.delete                                               *)
(***************************************************************************)
LinkDeleteOp(l, src, tgt, getRaises, vol, detachRaises) ==
    IF ~Has(src, ATTR_ID) \/ ~Has(tgt, ATTR_ID)
    THEN LinkDone(l, <<>>, NoVolume, None, "KeyError")
    ELSE
      LET instance_id == src[ATTR_ID]
          volume_id == tgt[ATTR_ID]
          c1 == <<Call("get_storage", <<volume_id>>)>>
          c2 == Append(c1, Call("detach_volume", <<instance_id, vol>>))
      IN IF getRaises THEN LinkDone(l, c1, NoVolume, None, "PlatformError")
         ELSE LinkDone(l, c2, vol, None, IF detachRaises THEN "PlatformError" ELSE "ok")

(***************************************************************************)
(* The state machine of the storage link.  The link's source is the        *)
(* compute resource, its target the storage resource.                      *)
(***************************************************************************)
LinkAttrs ==
    LET choices == (ATTR_DEVICEID :> {"/dev/vdc"})
    IN {d \in Dicts(choices) : WellTyped(d, choices)}

SourceAttrs ==
    LET choices == (ATTR_ID :> InstIds)
    IN {d \in Dicts(choices) : WellTyped(d, choices)}

TargetAttrs ==
    LET choices == (ATTR_ID :> VolIds)
    IN {d \in Dicts(choices) : WellTyped(d, choices)}

RegistryPaths == {ComputePath(i) : i \in InstIds \cup {""}}

LinkFinish(op, r) ==
    /\ link' = r.link
    /\ calls' = r.calls
    /\ volume' = r.volume
    /\ device' = r.device
    /\ outcome' = r.outcome
    /\ lastOp' = op
    /\ input' = NoInput
    /\ UNCHANGED <<entity, source, registry>>

LinkCreate ==
    \E attachRaises \in BOOLEAN, device_name \in DeviceNames :
       LinkFinish("link_create",
                  LinkCreateOp(link, source, entity.attributes, registry,
                               attachRaises, device_name))

LinkDelete ==
    \E getRaises \in BOOLEAN, detachRaises \in BOOLEAN, vol \in VolumeRecords :
       LinkFinish("link_delete",
                  LinkDeleteOp(link, source, entity.attributes, getRaises, vol, detachRaises))

LinkInit ==
    /\ entity \in [attributes : TargetAttrs, identifier : {""}, actions : {<<>>}]
    /\ link \in [attributes : LinkAttrs, identifier : {""}]
    /\ source \in SourceAttrs
    /\ registry \in SUBSET RegistryPaths
    /\ lastOp = "none"
    /\ input = NoInput
    /\ calls = <<>>
    /\ volume = NoVolume
    /\ device = None
    /\ outcome = "ok"

LinkNext == LinkCreate \/ LinkDelete

LinkSpec == LinkInit /\ [][LinkNext]_vars

(***************************************************************************)
(* Properties.  A step whose lastOp' is a handler's name is a step of that  *)
(* handler: the unprimed variables are the state it was called in, the     *)
(* primed ones the state it left.                                          *)
(***************************************************************************)
AllActions == {OFFLINE, BACKUP, SNAPSHOT, RESIZE}

StateOf(attrs) == Get(attrs, ATTR_STATE, None)

\* C1: after a retrieve that completes, occi.storage.state is "online" and the
\* allowed actions are exactly {offline, backup, snapshot, resize} when the
\* platform status is "available" or "in-use"; otherwise the state is "offline"
\* and the allowed actions are exactly {online}, whatever the entity held before.
C1_RetrieveProjection ==
    [][(lastOp' = "retrieve" /\ outcome' = "ok") =>
         /\ Has(entity'.attributes, ATTR_STATE)
         /\ IF volume'.status \in {"available", "in-use"}
            THEN /\ entity'.attributes[ATTR_STATE] = "online"
                 /\ Range(entity'.actions) = AllActions
                 /\ Len(entity'.actions) = 4
            ELSE /\ entity'.attributes[ATTR_STATE] = "offline"
                 /\ entity'.actions = <<ONLINE>>]_vars

\* a retrieve that saw "in-use" left the entity online with the four actions
C1_Witness ==
    /\ lastOp = "retrieve" /\ outcome = "ok" /\ volume.status = "in-use"
    /\ StateOf(entity.attributes) = "online"
    /\ Range(entity.actions) = AllActions

\* C2 (as claimed): when the re-fetched volume has status "error", create fails
\* with HTTP 500 and occi.core.id is set to the platform-assigned volume id.
C2_IdSetOnError ==
    (lastOp = "create" /\ volume.status = "error") =>
        /\ outcome = "HTTPError500"
        /\ Has(entity.attributes, ATTR_ID)
        /\ entity.attributes[ATTR_ID] = volume.id

\* C2 (amended): when the re-fetched volume has status "error", create fails
\* with HTTP 500 and leaves the entity as it was: occi.core.id, the identifier
\* and the allowed actions are not written.
C2_EntityUntouchedOnError ==
    [][(lastOp' = "create" /\ volume'.status = "error") =>
         /\ outcome' = "HTTPError500"
         /\ entity' = entity]_vars

\* a create failed with HTTP 500 on an entity that still has no occi.core.id
C2_Witness ==
    /\ lastOp = "create" /\ outcome = "HTTPError500" /\ volume.status = "error"
    /\ ~Has(entity.attributes, ATTR_ID)
    /\ Len(calls) = 2

\* C3 (as claimed): update of an entity holding a title and a summary with a new
\* entity holding only a non-empty title completes without error, sets the title
\* and leaves the summary unchanged.
C3_TitleOnlyUpdate ==
    [][(/\ lastOp' = "update"
        /\ DOMAIN input' = {ATTR_TITLE}
        /\ Len(input'[ATTR_TITLE]) > 0
        /\ Has(entity.attributes, ATTR_TITLE)
        /\ Has(entity.attributes, ATTR_SUMMARY)) =>
         /\ outcome' = "ok"
         /\ entity'.attributes[ATTR_TITLE] = input'[ATTR_TITLE]
         /\ entity'.attributes[ATTR_SUMMARY] = entity.attributes[ATTR_SUMMARY]]_vars

\* C4: an action that is not in the entity's allowed actions fails with
\* AttributeError, makes no platform call and leaves the entity unchanged.
C4_DisallowedAction ==
    [][(lastOp' = "action" /\ input' \notin Range(entity.actions)) =>
         /\ outcome' = "AttributeError"
         /\ calls' = <<>>
         /\ entity' = entity]_vars

\* a snapshot was refused on a created entity whose only allowed action is online
C4_Witness ==
    /\ lastOp = "action" /\ input = SNAPSHOT
    /\ outcome = "AttributeError" /\ calls = <<>>
    /\ entity.actions = <<ONLINE>>
    /\ Has(entity.attributes, ATTR_ID)

\* C5: create of an entity without occi.storage.size fails with AttributeError,
\* makes no platform call and leaves attributes, identifier and actions unchanged.
C5_MissingSize ==
    [][(lastOp' = "create" /\ ~Has(entity.attributes, ATTR_SIZE)) =>
         /\ outcome' = "AttributeError"
         /\ calls' = <<>>
         /\ volume' = NoVolume
         /\ entity' = entity]_vars

\* a create was refused on an entity that has a title but no size
C5_Witness ==
    /\ lastOp = "create" /\ outcome = "AttributeError" /\ calls = <<>>
    /\ ~Has(entity.attributes, ATTR_SIZE)
    /\ Has(entity.attributes, ATTR_TITLE)

\* C6: once occi.core.id is set, no retrieve, update, delete or action changes it.
C6_IdImmutable ==
    [][(Has(entity.attributes, ATTR_ID)
        /\ lastOp' \in {"retrieve", "update", "delete", "action"}) =>
         /\ Has(entity'.attributes, ATTR_ID)
         /\ entity'.attributes[ATTR_ID] = entity.attributes[ATTR_ID]]_vars

\* an update whose new entity carried another occi.core.id completed and the
\* entity kept its own
C6_Witness ==
    /\ lastOp = "update" /\ outcome = "ok"
    /\ Has(input, ATTR_ID) /\ Has(entity.attributes, ATTR_ID)
    /\ input[ATTR_ID] # entity.attributes[ATTR_ID]
    /\ entity.attributes[ATTR_ID] \in VolIds

\* values occi.storage.state may hold when a handler is called; None: absent
PriorStates == {None, "online", "offline", "active", "degraded"}

WithState(e, s) ==
    IF s = None
    THEN [e EXCEPT !.attributes = [k \in DOMAIN e.attributes \ {ATTR_STATE} |-> e.attributes[k]]]
    ELSE [e EXCEPT !.attributes = Put(e.attributes, ATTR_STATE, s)]

\* C7: after every create or retrieve that completes,
\* occi.storage.state is set and is the value the call would have left from any
\* other prior value of the attribute: it depends on the observed status only.
C7_StateIsProjection ==
    [][(lastOp' \in {"create", "retrieve"} /\ outcome' = "ok") =>
         /\ Has(entity'.attributes, ATTR_STATE)
         /\ \A s \in PriorStates :
              LET r == IF lastOp' = "create"
                       THEN CreateOp(WithState(entity, s), "uuid-1", FALSE, FALSE, volume')
                       ELSE RetrieveOp(WithState(entity, s), FALSE, volume')
              IN StateOf(r.entity.attributes) = StateOf(entity'.attributes)]_vars

LinkPath == "/compute/" \o Get(source, ATTR_ID, "")

\* C8: when the registry does not know the compute resource, link create
\* completes, occi.core.id is the instance id and the volume id joined by an
\* underscore, occi.storagelink.state is "active" and no attach call is made.
C8_RegistryMiss ==
    [][(lastOp' = "link_create" /\ LinkPath \notin registry) =>
         /\ outcome' = "ok"
         /\ calls' = <<>>
         /\ link'.attributes[ATTR_ID] =
               Get(source, ATTR_ID, "") \o "_" \o Get(entity.attributes, ATTR_ID, "")
         /\ link'.attributes[ATTR_LINKSTATE] = "active"]_vars

\* the link i1 -> v1 was created on a registry miss
C8_Witness ==
    /\ lastOp = "link_create" /\ outcome = "ok" /\ calls = <<>>
    /\ Get(source, ATTR_ID, "") = "i1" /\ Get(entity.attributes, ATTR_ID, "") = "v1"
    /\ "/compute/i1" \notin registry
    /\ link.attributes[ATTR_ID] = "i1_v1"
    /\ link.attributes[ATTR_LINKSTATE] = "active"

\* C9: when the registry knows the compute resource, link create makes exactly
\* one attach call, with the instance id, the volume id and the requested device
\* id (None when none was requested), and when the call returns,
\* occi.storagelink.deviceid is the device name the platform returned.
C9_RegistryHit ==
    [][(lastOp' = "link_create" /\ LinkPath \in registry) =>
         /\ calls' = <<[api |-> "attach_volume",
                        args |-> <<Get(source, ATTR_ID, ""),
                                   Get(entity.attributes, ATTR_ID, ""),
                                   Get(link.attributes, ATTR_DEVICEID, None)>>]>>
         /\ outcome' \in {"ok", "PlatformError"}
         /\ outcome' = "ok" =>
              /\ device' \in DeviceNames
              /\ link'.attributes[ATTR_DEVICEID] = device']_vars

\* /dev/vdc was requested, the platform returned /dev/vdb, the link holds /dev/vdb
C9_Witness ==
    /\ lastOp = "link_create" /\ outcome = "ok"
    /\ Len(calls) = 1 /\ calls[1].args[3] = "/dev/vdc"
    /\ device = "/dev/vdb"
    /\ link.attributes[ATTR_DEVICEID] = "/dev/vdb"

\* C10 (as claimed): the name passed to create_storage is occi.core.title when
\* it is present and non-empty, and a generated uuid otherwise.
C10_NameNonEmptyTitle ==
    [][(lastOp' = "create" /\ Len(calls') >= 1) =>
         /\ calls'[1].api = "create_storage"
         /\ IF Has(entity.attributes, ATTR_TITLE) /\ Len(entity.attributes[ATTR_TITLE]) > 0
            THEN calls'[1].args[2] = entity.attributes[ATTR_TITLE]
            ELSE calls'[1].args[2] \in Uuids]_vars

\* C10 (amended): the name passed to create_storage is occi.core.title whenever
\* the attribute is present, the empty title included, and a generated uuid
\* only when the attribute is absent.
C10_NamePresentTitle ==
    [][(lastOp' = "create" /\ Len(calls') >= 1) =>
         /\ calls'[1].api = "create_storage"
         /\ IF Has(entity.attributes, ATTR_TITLE)
            THEN calls'[1].args[2] = entity.attributes[ATTR_TITLE]
            ELSE calls'[1].args[2] \in Uuids]_vars

\* a create with the empty title passed the empty name to the platform
C10_Witness ==
    /\ lastOp = "create" /\ Len(calls) >= 1
    /\ Has(entity.attributes, ATTR_TITLE) /\ entity.attributes[ATTR_TITLE] = ""
    /\ calls[1].api = "create_storage" /\ calls[1].args[2] = ""

====
